---- MODULE Spec2Model ----
(***************************************************************************)
(* NodeLogInsight: incremental ingestion of a node's log into MongoDB.     *)
(* The model follows src/main.go: index setup and duplicate repair, the    *)
(* historical scan, the one-shot parse of the live file, the fsnotify      *)
(* tailer, the line parser and the gap detector.                           *)
(*                                                                         *)
(* Encoding.  A file is a sequence of pieces; a piece stands for a run of  *)
(* bytes written by the producer in one go and counts as one unit of       *)
(* offset:                                                                 *)
(*   "head"  I[<ts>] Committed State module=m height=<h> txs=<t> appHash=a *)
(*   "tail"  the rest of the appHash text                                  *)
(*   "junk"  text the pattern does not match                               *)
(*   "nl"    the line terminator                                           *)
(* Field texts are sequences of characters: 0..9 are the digits and -1 is  *)
(* any other character.  The timestamp text stands for the "SS.mmm" part   *)
(* of the layout (the date, hour and minute are the same on every line).   *)
(* Times are in milliseconds.                                              *)
(***************************************************************************)
EXTENDS Integers, Sequences, FiniteSets, TLC

VARIABLES
    pc,                 \* position of main(): see PcValues
    skipHistorical,     \* SKIP_HISTORICAL_LOGS == "true"
    idx,                \* per collection: the index on height the server holds
    committed_state,    \* collection: sequence of documents in natural order
    block_time_gap,     \* collection: sequence of documents in natural order
    lastCommittedState, \* <<>> (nil) or <<entry>>
    segs,               \* the log directory as os.ReadDir lists it, the live file left out
    files,              \* generations of the live file: sequence of contents
    pathGen,            \* generation the live path names now, 0 when absent
    file,               \* tailer handle: <<>> (nil) or <<[gen, pos]>>
    currentPos,         \* tailer offset
    events,             \* watcher.Events: queued notifications
    watching,           \* watcher.Add has succeeded
    chanOpen,           \* watcher.Events / watcher.Errors not closed
    budget,             \* what the environment may still do (bounds)
    obs                 \* observations of the run (history, read by the properties only)

vars == <<pc, skipHistorical, idx, committed_state, block_time_gap,
          lastCommittedState, segs, files, pathGen, file, currentPos,
          events, watching, chanOpen, budget, obs>>

-----------------------------------------------------------------------------
(* Bounds of the model *)

MaxPre == 3        \* documents a collection holds before startup
MaxIngest == 2     \* lines ingested after index setup in SpecStartup
MaxSeg == 2        \* highest suffix N of a historical segment
MaxGen == 2        \* generations of the live file (one rotation)
MaxLines == 3      \* lines of the file that is fed twice in SpecReplay
MaxWrites == 2     \* writes of the producer
MaxFeed == 3       \* lines fed in SpecIngest
MaxRuns == 4       \* runs of the process in SpecRestart
MaxNoise == 2      \* notifications about other files in SpecNoise

-----------------------------------------------------------------------------
(* Options and small helpers *)

Nil == <<>>
Some(x) == <<x>>
Val(o) == o[1]

Range(s) == {s[i] : i \in 1..Len(s)}

SeqsUpTo(S, n) == UNION {[1..k -> S] : k \in 0..n}

-----------------------------------------------------------------------------
(* Line parser: the conversions of parseAndStore *)

NonDigit == -1
IsDigit(c) == c \in 0..9

RECURSIVE DigitsValue(_, _)
DigitsValue(s, acc) ==
    IF s = <<>> THEN acc ELSE DigitsValue(Tail(s), acc * 10 + Head(s))

AllDigits(s) == s # <<>> /\ \A i \in 1..Len(s) : IsDigit(s[i])

\* the largest int64 / int (three digits stand for nineteen)
MaxInt64 == 999
\* strconv.ParseInt(text, 10, 64) / strconv.Atoi(text), error discarded: 0 on a
\* syntax error, the largest value on a range error
ParseInt(s) ==
    IF ~AllDigits(s) THEN 0
    ELSE IF DigitsValue(s, 0) > MaxInt64 THEN MaxInt64
    ELSE DigitsValue(s, 0)

\* time.Time{} lies far before every timestamp of a log
ZeroTime == -1000000
\* the layout has a fixed width: two digits of seconds, three of milliseconds
TsWidth == 5
\* time.Parse("2006-01-02|15:04:05.000", text), error discarded
ParseTime(s) ==
    IF AllDigits(s) /\ Len(s) = TsWidth /\ DigitsValue(SubSeq(s, 1, 2), 0) <= 59
    THEN DigitsValue(s, 0)
    ELSE ZeroTime

\* time.Duration saturates
MaxDuration == 900000
\* Time.Sub
Sub(t, u) ==
    LET d == t - u IN
    IF d > MaxDuration THEN MaxDuration
    ELSE IF d < -MaxDuration THEN -MaxDuration ELSE d

\* the gap threshold, 5.0 seconds
GapThreshold == 5000

IsHead(p) == p.k = "head"

\* committedStateRegex.FindStringSubmatch(line): index of the leftmost match, 0 if none
MatchAt(line) ==
    IF \E i \in 1..Len(line) : IsHead(line[i])
    THEN CHOOSE i \in 1..Len(line) :
            IsHead(line[i]) /\ \A j \in 1..(i - 1) : ~IsHead(line[j])
    ELSE 0

\* the CommittedState entry built from a matching line; AppHash is the
\* length of the captured hash text
Entry(line) ==
    LET i == MatchAt(line) IN
    [Timestamp |-> ParseTime(line[i].ts),
     Height    |-> ParseInt(line[i].height),
     Txs       |-> ParseInt(line[i].txs),
     AppHash   |-> Len(line) - i + 1]

-----------------------------------------------------------------------------
(* Event store *)

Colls == {"committed_state", "block_time_gap"}

\* index on height a collection may hold when the process starts:
\*   none         no index on height
\*   unique       the index this program creates (same name, same options)
\*   uniqueOther  a unique index on height under another name
\*   plain        a non-unique index on height
IdxStates == {"none", "unique", "uniqueOther", "plain"}

EnforcesUnique(i) == i \in {"unique", "uniqueOther"}

Heights(docs) == {docs[i].Height : i \in 1..Len(docs)}

HasDup(docs) ==
    \E i, j \in 1..Len(docs) : i # j /\ docs[i].Height = docs[j].Height

\* collection.InsertOne: "ok", "dup" (duplicate key error) or "other"
InsertOne(docs, index, doc, fault) ==
    IF fault THEN [err |-> "other", docs |-> docs]
    ELSE IF EnforcesUnique(index) /\ doc.Height \in Heights(docs)
         THEN [err |-> "dup", docs |-> docs]
         ELSE [err |-> "ok", docs |-> Append(docs, doc)]

-----------------------------------------------------------------------------
(* Index setup and duplicate repair: createUniqueIndex, removeDuplicates *)

\* collection.Indexes().CreateOne({height: 1}, unique): what the server answers
\*   "ok"        created, or the same index is there already
\*   "E11000"    the documents hold a height twice
\*   "conflict"  IndexOptionsConflict / "already exists": an index on height
\*               with another name or other options is there
\*   "other"     any other failure (fault)
CreateOne(docs, index, fault) ==
    IF fault THEN "other"
    ELSE IF index = "unique" THEN "ok"
    ELSE IF index \in {"uniqueOther", "plain"} THEN "conflict"
    ELSE IF HasDup(docs) THEN "E11000" ELSE "ok"

\* $group {_id: "$height", ids: {$push: "$_id"}}: the positions holding height h,
\* in the order they are met
Ids(docs, h) == {i \in 1..Len(docs) : docs[i].Height = h}

First(S) == CHOOSE i \in S : \A j \in S : i <= j

\* result.IDs[1:] dropping the first member of a group
IDsDropFirstNone(S) == S
IDsAfterFirst(S) == S \ {First(S)}

\* $match {count > 1}, then idsToDelete over every group
IdsToDelete(docs) ==
    UNION {IDsAfterFirst(Ids(docs, h)) :
             h \in {g \in Heights(docs) : Cardinality(Ids(docs, g)) > 1}}

RECURSIVE KeepAt(_, _, _)
KeepAt(docs, gone, i) ==
    IF i > Len(docs) THEN <<>>
    ELSE (IF i \in gone THEN <<>> ELSE <<docs[i]>>) \o KeepAt(docs, gone, i + 1)

\* removeDuplicates: aggFault = Aggregate fails; delFail = the ids whose
\* DeleteOne fails (logged, the document stays)
removeDuplicates(docs, aggFault, delFail) ==
    IF aggFault THEN [err |-> TRUE, docs |-> docs]
    ELSE [err |-> FALSE, docs |-> KeepAt(docs, IdsToDelete(docs) \ delFail, 1)]

\* the branch of createUniqueIndex that accepts an index that is already there
AcceptsExisting(r) == r = "conflict"

\* an index created without SetUnique(true)
createUniqueIndexPlain(docs, index, env) ==
    [ret |-> "nil", docs |-> docs, index |-> "plain", via |-> "created",
     first |-> "ok", faulted |-> FALSE]

\* createUniqueIndex(collection, "height", name).  env names the faults of the run:
\* c1 / c2 = first / second CreateOne fails, agg = Aggregate fails, del = ids
\* whose DeleteOne fails.  Result: ret ("nil" or "err"), the documents, the
\* index, via (the path taken), first (the answer to the first CreateOne) and
\* faulted (a storage fault was met on the way).
createUniqueIndex(docs, index, env) ==
    LET r1 == CreateOne(docs, index, env.c1) IN
    IF r1 = "ok"
    THEN [ret |-> "nil", docs |-> docs, index |-> "unique", via |-> "created",
          first |-> r1, faulted |-> FALSE]
    ELSE IF r1 = "E11000"
    THEN LET rd == removeDuplicates(docs, env.agg, env.del)
             r2 == CreateOne(rd.docs, index, env.c2)
             flt == env.agg \/ env.c2 \/ (env.del \cap IdsToDelete(docs)) # {}
         IN IF rd.err
            THEN [ret |-> "err", docs |-> rd.docs, index |-> index,
                  via |-> "cleanFailed", first |-> r1, faulted |-> TRUE]
            ELSE IF r2 # "ok"
            THEN [ret |-> "err", docs |-> rd.docs, index |-> index,
                  via |-> "retryFailed", first |-> r1, faulted |-> flt]
            ELSE [ret |-> "nil", docs |-> rd.docs, index |-> "unique",
                  via |-> "repaired", first |-> r1, faulted |-> flt]
    ELSE IF AcceptsExisting(r1)
    THEN [ret |-> "nil", docs |-> docs, index |-> index, via |-> "exists",
          first |-> r1, faulted |-> FALSE]
    ELSE [ret |-> "err", docs |-> docs, index |-> index, via |-> "failed",
          first |-> r1, faulted |-> TRUE]

NoFault == [c1 |-> FALSE, agg |-> FALSE, del |-> {}, c2 |-> FALSE]

\* the fault scenarios of one createUniqueIndex call over docs
Envs(docs) ==
    {NoFault,
     [NoFault EXCEPT !.c1 = TRUE],
     [NoFault EXCEPT !.agg = TRUE],
     [NoFault EXCEPT !.c2 = TRUE]}
    \cup {[NoFault EXCEPT !.del = {i}] : i \in 1..Len(docs)}

-----------------------------------------------------------------------------
(* parseAndStore *)

\* InsertOne of the entry into committed_state
StoreCommittedUpsert(docs, index, entry, fault) ==
    IF fault THEN [err |-> "other", docs |-> docs]
    ELSE IF entry.Height \in Heights(docs)
         THEN [err |-> "ok",
               docs |-> [i \in 1..Len(docs) |->
                           IF docs[i].Height = entry.Height THEN entry ELSE docs[i]]]
         ELSE [err |-> "ok", docs |-> Append(docs, entry)]
StoreCommitted(docs, index, entry, fault) == InsertOne(docs, index, entry, fault)

\* timeDiff >= 5.0, with a previous state present
GapDueStrict(entry, last) ==
    last # Nil /\ Sub(entry.Timestamp, Val(last).Timestamp) > GapThreshold
GapDue(entry, last) ==
    last # Nil /\ Sub(entry.Timestamp, Val(last).Timestamp) >= GapThreshold

GapEntry(entry, last) ==
    [Timestamp      |-> entry.Timestamp,
     Height         |-> entry.Height,
     Txs            |-> entry.Txs,
     TimeDiff       |-> Sub(entry.Timestamp, Val(last).Timestamp),
     PreviousHeight |-> Val(last).Height]

\* lastCommittedState = &entry
NextLast(entry, err) == Some(entry)

\* What one call observed (read by the properties only)
NoCall == [matched |-> FALSE, height |-> 0, csErr |-> "none", gapErr |-> "none",
           logged |-> FALSE, line |-> <<>>]

\* One call of parseAndStore on the store state st = [cs, gap, last, idx, ...].
\* src tags where the line came from; flt names the InsertOne that meets a
\* storage fault: "none", "cs" or "gap".  StoreEntry is the body of the
\* "if matches" block.
StoreEntry(st, line, src, flt) ==
      LET entry == Entry(line)
          r1 == StoreCommitted(st.cs, st.idx["committed_state"], entry, flt = "cs")
          due == GapDue(entry, st.last)
          r2 == IF due
                THEN InsertOne(st.gap, st.idx["block_time_gap"],
                               GapEntry(entry, st.last), flt = "gap")
                ELSE [err |-> "none", docs |-> st.gap]
      IN [st EXCEPT
            !.cs = r1.docs,
            !.gap = r2.docs,
            !.last = NextLast(entry, r1.err),
            !.pairs = IF st.gprev = Nil THEN @
                      ELSE @ \cup {[e1 |-> Val(st.gprev).ev, s1 |-> Val(st.gprev).src,
                                    e2 |-> entry, s2 |-> src,
                                    gap |-> IF due THEN Some(GapEntry(entry, st.last))
                                            ELSE Nil]},
            !.gprev = Some([ev |-> entry, src |-> src]),
            !.ins = [matched |-> TRUE, height |-> entry.Height, csErr |-> r1.err,
                     gapErr |-> r2.err,
                     logged |-> r1.err = "other" \/ r2.err = "other",
                     line |-> line]]

\* a line the pattern does not match with the detector's state dropped
parseAndStoreForgets(st, line, src, flt) ==
    IF MatchAt(line) = 0 THEN [st EXCEPT !.ins = [NoCall EXCEPT !.line = line], !.last = Nil]
    ELSE StoreEntry(st, line, src, flt)
parseAndStore(st, line, src, flt) ==
    IF MatchAt(line) = 0 THEN [st EXCEPT !.ins = [NoCall EXCEPT !.line = line]]
    ELSE StoreEntry(st, line, src, flt)

Faults == {"none", "cs", "gap"}

-----------------------------------------------------------------------------
(* Inputs *)

Txt0 == <<0, 0, 0, 0, 0>>      \* 00.000
Txt4999 == <<0, 4, 9, 9, 9>>   \* 04.999
Txt5 == <<0, 5, 0, 0, 0>>      \* 05.000
Txt11 == <<1, 1, 0, 0, 0>>     \* 11.000

HeadPiece(h, t, x) == [k |-> "head", ts |-> t, height |-> <<h>>, txs |-> <<x>>]
TailPiece == [k |-> "tail"]
JunkPiece == [k |-> "junk"]
NL == [k |-> "nl"]

\* the text of a complete Committed State line, and of an unrelated one
CsLine(h, t, x) == <<HeadPiece(h, t, x), TailPiece>>
JunkLine == <<JunkPiece>>

\* lines fed after index setup in SpecStartup
IngestLines ==
    {CsLine(1, Txt5, 2), CsLine(2, Txt11, 2), JunkLine}

\* documents an earlier run may have left behind
PreCommitted == {Entry(CsLine(1, Txt0, 1)), Entry(CsLine(1, Txt5, 2)),
                 Entry(CsLine(2, Txt5, 1))}
PreGaps ==
    {GapEntry(Entry(CsLine(2, Txt5, 1)), Some(Entry(CsLine(1, Txt0, 1)))),
     GapEntry(Entry(CsLine(2, Txt11, 2)), Some(Entry(CsLine(1, Txt5, 2))))}

-----------------------------------------------------------------------------
(* State shared by the specifications *)

PcValues == {"idxCommitted", "idxGap", "historical", "liveParse", "stat",
             "openAndSeek", "watcherAdd", "watch", "fatal", "returned"}

NotRun == [ret |-> "none", via |-> "none", first |-> "none", faulty |-> FALSE]

Obs0 == [pre    |-> [committed_state |-> <<>>, block_time_gap |-> <<>>],
         preIdx |-> [c \in Colls |-> "none"],
         setup  |-> [c \in Colls |-> NotRun],
         n      |-> 0,
         ins    |-> NoCall,
         pairs  |-> {},
         gprev  |-> Nil,
         fed    |-> {},       \* live-file lines handed to the parser: [gen, off, text, term, src]
         stat   |-> Nil,      \* what os.Stat saw at tailer start: <<[gen, size]>>
         hist   |-> Nil,      \* what processHistoricalLogs did
         runs   |-> <<>>,     \* earlier runs of the process: [read, cs, gap, last]
         trunc  |-> Nil,      \* the live file was truncated in place: <<[gen]>>
         rot    |-> Nil,      \* last create notification: [pending, from, served]
         last   |-> "none",   \* what the tailer did last
         read   |-> <<>>,     \* line texts the last write notification delivered
         fds    |-> 0,        \* open descriptors of the tailer
         addErr |-> FALSE,    \* NewWatcher / watcher.Add failed
         snap   |-> [cs |-> <<>>, gap |-> <<>>]]  \* the store after the first pass

St == [cs |-> committed_state, gap |-> block_time_gap, last |-> lastCommittedState,
       idx |-> idx, pairs |-> obs.pairs, gprev |-> obs.gprev, ins |-> obs.ins]

\* the store state st becomes the next state; o is obs with its other fields set
Commit(st, o) ==
    /\ committed_state' = st.cs
    /\ block_time_gap' = st.gap
    /\ lastCommittedState' = st.last
    /\ obs' = [o EXCEPT !.pairs = st.pairs, !.gprev = st.gprev, !.ins = st.ins]

\* main(): where control goes once ensureIndexes has returned
AfterIndexes == IF skipHistorical THEN "stat" ELSE "historical"

\* ensureIndexes, first half: createUniqueIndex on committed_state, log.Fatalf on error
EnsureCommitted ==
    /\ pc = "idxCommitted"
    /\ \E env \in Envs(committed_state) :
         LET r == createUniqueIndex(committed_state, idx["committed_state"], env) IN
         /\ committed_state' = r.docs
         /\ idx' = [idx EXCEPT !["committed_state"] = r.index]
         /\ pc' = IF r.ret = "nil" THEN "idxGap" ELSE "fatal"
         /\ obs' = [obs EXCEPT !.setup["committed_state"] =
                        [ret |-> r.ret, via |-> r.via, first |-> r.first,
                         faulty |-> r.faulted]]
    /\ UNCHANGED <<skipHistorical, block_time_gap, lastCommittedState, segs, files,
                   pathGen, file, currentPos, events, watching, chanOpen, budget>>

\* ensureIndexes, second half: createUniqueIndex on block_time_gap
EnsureGap ==
    /\ pc = "idxGap"
    /\ \E env \in Envs(block_time_gap) :
         LET r == createUniqueIndex(block_time_gap, idx["block_time_gap"], env) IN
         /\ block_time_gap' = r.docs
         /\ idx' = [idx EXCEPT !["block_time_gap"] = r.index]
         /\ pc' = IF r.ret = "nil" THEN AfterIndexes ELSE "fatal"
         /\ obs' = [obs EXCEPT !.setup["block_time_gap"] =
                        [ret |-> r.ret, via |-> r.via, first |-> r.first,
                         faulty |-> r.faulted]]
    /\ UNCHANGED <<skipHistorical, committed_state, lastCommittedState, segs, files,
                   pathGen, file, currentPos, events, watching, chanOpen, budget>>

-----------------------------------------------------------------------------
(* SpecStartup: index setup over a store an earlier run left behind, then    *)
(* ingestion.  Whatever feeds the parser (historical replay, the startup     *)
(* parse, the tailer) does so by calling parseAndStore on one line at a      *)
(* time, so ingestion is any sequence of such calls.                         *)

\* a unique index cannot be in place over documents sharing a height
IndexConsistent(i, docs) == EnforcesUnique(i) => ~HasDup(docs)

InitStartup ==
    /\ pc = "idxCommitted"
    /\ skipHistorical = FALSE
    /\ committed_state \in SeqsUpTo(PreCommitted, MaxPre)
    /\ block_time_gap \in SeqsUpTo(PreGaps, MaxPre - 1)
    /\ idx \in [Colls -> IdxStates]
    /\ IndexConsistent(idx["committed_state"], committed_state)
    /\ IndexConsistent(idx["block_time_gap"], block_time_gap)
    /\ lastCommittedState = Nil
    /\ segs = <<>>
    /\ files = <<>>
    /\ pathGen = 0
    /\ file = Nil
    /\ currentPos = 0
    /\ events = <<>>
    /\ watching = FALSE
    /\ chanOpen = TRUE
    /\ budget = [ingest |-> MaxIngest]
    /\ obs = [Obs0 EXCEPT
                !.pre = [committed_state |-> committed_state,
                         block_time_gap |-> block_time_gap],
                !.preIdx = idx]

\* one line reaches parseAndStore
Ingest ==
    /\ pc \in {"historical", "stat"}
    /\ budget.ingest > 0
    /\ \E line \in IngestLines, flt \in Faults :
         Commit(parseAndStore(St, line, "any", flt), [obs EXCEPT !.n = @ + 1])
    /\ budget' = [budget EXCEPT !.ingest = @ - 1]
    /\ UNCHANGED <<pc, skipHistorical, idx, segs, files, pathGen, file, currentPos,
                   events, watching, chanOpen>>

NextStartup == EnsureCommitted \/ EnsureGap \/ Ingest

SpecStartup == InitStartup /\ [][NextStartup]_vars

-----------------------------------------------------------------------------
(* Reading files: bufio.Scanner with ScanLines *)

\* The tokens of data, a run of pieces that starts at offset base: each line up
\* to its terminator, and at end of file the unterminated rest when it is not
\* empty.  off is the offset of the token's first piece, term whether a
\* terminator ended it.
RECURSIVE Scan(_, _, _, _, _)
Scan(data, base, i, start, acc) ==
    IF i > Len(data)
    THEN IF start <= Len(data)
         THEN Append(acc, [text |-> SubSeq(data, start, Len(data)),
                           off |-> base + start - 1, term |-> FALSE])
         ELSE acc
    ELSE IF data[i].k = "nl"
         THEN Scan(data, base, i + 1, i + 1,
                   Append(acc, [text |-> SubSeq(data, start, i - 1),
                                off |-> base + start - 1, term |-> TRUE]))
         ELSE Scan(data, base, i + 1, start, acc)

\* scanner over a handle positioned at pos in content
ScanFrom(content, pos) ==
    IF pos >= Len(content) THEN <<>>
    ELSE Scan(SubSeq(content, pos + 1, Len(content)), pos, 1, 1, <<>>)

\* for scanner.Scan() { parseAndStore(scanner.Text(), db) }
RECURSIVE FeedLines(_, _, _)
FeedLines(st, toks, src) ==
    IF toks = <<>> THEN st
    ELSE FeedLines(parseAndStore(st, Head(toks).text, src, "none"), Tail(toks), src)

\* processSingleFile(filePath, db): f is <<>> when os.Open fails
processSingleFile(st, f, src) ==
    IF f = Nil THEN st ELSE FeedLines(st, ScanFrom(Val(f), 0), src)

FedOf(toks, gen, src) ==
    {[gen |-> gen, off |-> toks[i].off, text |-> toks[i].text, term |-> toks[i].term,
      src |-> src] : i \in 1..Len(toks)}

-----------------------------------------------------------------------------
(* Historical scanner *)

\* A directory entry: name = [base, sfx], isDir, data (the content of a file).
\* base is the text before the last '.' of the name: "live" is mainLogName,
\* "alike" a text that differs from mainLogName only where mainLogName has a
\* '.', "other" any other text; sfx is the text after the last '.'.
DirEntry(base, sfx, isDir, data) ==
    [name |-> [base |-> base, sfx |-> sfx], isDir |-> isDir, data |-> data]

\* re.MatchString(file.Name()) for re = ^<mainLogName>\.(\d+)$, mainLogName put
\* into the pattern as it is: its own '.' matches any character
MatchString(name) == name.base \in {"live", "alike"} /\ AllDigits(name.sfx)

\* strconv.Atoi(re.FindStringSubmatch(name)[1])
SuffixNum(e) == ParseInt(e.name.sfx)

\* the loop that collects historicalLogs
HistoricalLogs(dir) == SelectSeq(dir, LAMBDA e : ~e.isDir /\ MatchString(e.name))

\* sort.Slice(historicalLogs, numA < numB): up to 12 elements it is an insertion
\* sort, which leaves entries of equal number in the order of the listing
RECURSIVE InsertByNum(_, _)
InsertByNum(s, e) ==
    IF s # <<>> /\ SuffixNum(e) < SuffixNum(s[Len(s)])
    THEN Append(InsertByNum(SubSeq(s, 1, Len(s) - 1), e), s[Len(s)])
    ELSE Append(s, e)
RECURSIVE SortSlice(_)
SortSlice(s) ==
    IF s = <<>> THEN <<>>
    ELSE InsertByNum(SortSlice(SubSeq(s, 1, Len(s) - 1)), s[Len(s)])

SegSrc(n) == IF n = 1 THEN "seg1" ELSE IF n = 2 THEN "seg2" ELSE "segN"

\* the loop over historicalLogs (logs), from its n-th entry on; unreadable = the
\* positions os.Open fails on
\* a loop that gives up when os.Open fails on a file
RECURSIVE ScanSegmentsStops(_, _, _, _)
ScanSegmentsStops(st, logs, n, unreadable) ==
    IF n > Len(logs) \/ unreadable # {} THEN st
    ELSE FeedLines(ScanSegmentsStops(st, SubSeq(logs, 1, Len(logs) - 1), n, unreadable),
                   ScanFrom(logs[Len(logs)].data, 0), SegSrc(Len(logs)))
RECURSIVE ScanSegments(_, _, _, _)
ScanSegments(st, logs, n, unreadable) ==
    IF n > Len(logs) THEN st
    ELSE ScanSegments(
            processSingleFile(st, IF n \in unreadable THEN Nil ELSE Some(logs[n].data),
                              SegSrc(n)),
            logs, n + 1, unreadable)

\* processHistoricalLogs(logDir, mainLogName, db); dirErr = os.ReadDir fails
ProcessHistoricalLogs ==
    /\ pc = "historical"
    /\ LET logs == SortSlice(HistoricalLogs(segs)) IN
       \E dirErr \in BOOLEAN, unreadable \in {{}} \cup {{n} : n \in 1..Len(logs)} :
         Commit(IF dirErr THEN St ELSE ScanSegments(St, logs, 1, unreadable),
                [obs EXCEPT !.hist = Some([dirErr |-> dirErr, logs |-> logs,
                                           unreadable |-> unreadable,
                                           before |-> [cs |-> committed_state,
                                                       gap |-> block_time_gap,
                                                       last |-> lastCommittedState],
                                           fedLive |-> obs.fed # {},
                                           handled |-> obs.last # "none"])])
    /\ pc' = "liveParse"
    /\ UNCHANGED <<skipHistorical, idx, segs, files, pathGen, file, currentPos, events,
                   watching, chanOpen, budget>>

\* what the live path names: <<>> or <<content>>
LiveFile == IF pathGen = 0 THEN Nil ELSE Some(files[pathGen])

\* main(): processSingleFile(mainLogFile, db)
ProcessLiveFile ==
    /\ pc = "liveParse"
    /\ Commit(processSingleFile(St, LiveFile, "live"),
              [obs EXCEPT !.fed = IF LiveFile = Nil THEN @
                                  ELSE @ \cup FedOf(ScanFrom(Val(LiveFile), 0),
                                                    pathGen, "live")])
    /\ pc' = "stat"
    /\ UNCHANGED <<skipHistorical, idx, segs, files, pathGen, file, currentPos, events,
                   watching, chanOpen, budget>>

-----------------------------------------------------------------------------
(* Tailer: watchLogFile *)

\* openAndSeek(): os.Open(filePath), then Seek(currentPos, 0)
openAndSeek(pos) ==
    IF pathGen = 0 THEN Nil ELSE Some([gen |-> pathGen, pos |-> pos])

Fd(f) == IF f = Nil THEN 0 ELSE 1

\* fsnotify.NewWatcher(), then os.Stat: currentPos = info.Size()
StatLive ==
    /\ pc = "stat"
    /\ \E newWatcherErr \in BOOLEAN :
         IF newWatcherErr
         THEN /\ pc' = "fatal"
              /\ obs' = [obs EXCEPT !.addErr = TRUE]
              /\ UNCHANGED currentPos
         ELSE /\ pc' = "openAndSeek"
              /\ currentPos' = IF pathGen = 0 THEN 0 ELSE Len(files[pathGen])
              /\ obs' = [obs EXCEPT !.stat =
                           IF pathGen = 0 THEN Some([gen |-> 0, size |-> 0])
                           ELSE Some([gen |-> pathGen, size |-> Len(files[pathGen])])]
    /\ UNCHANGED <<skipHistorical, idx, committed_state, block_time_gap,
                   lastCommittedState, segs, files, pathGen, file, events, watching,
                   chanOpen, budget>>

\* the first openAndSeek()
OpenLive ==
    /\ pc = "openAndSeek"
    /\ file' = openAndSeek(currentPos)
    /\ obs' = [obs EXCEPT !.fds = @ + Fd(file')]
    /\ pc' = "watcherAdd"
    /\ UNCHANGED <<skipHistorical, idx, committed_state, block_time_gap,
                   lastCommittedState, segs, files, pathGen, currentPos, events,
                   watching, chanOpen, budget>>

\* watcher.Add(filepath.Dir(filePath)), log.Fatalf on error
WatcherAdd ==
    /\ pc = "watcherAdd"
    /\ \E addErr \in BOOLEAN :
         /\ pc' = IF addErr THEN "fatal" ELSE "watch"
         /\ watching' = ~addErr
         /\ obs' = [obs EXCEPT !.addErr = addErr]
    /\ UNCHANGED <<skipHistorical, idx, committed_state, block_time_gap,
                   lastCommittedState, segs, files, pathGen, file, currentPos, events,
                   chanOpen, budget>>

Ev(name, op) == [name |-> name, ops |-> {op}]

\* a filter that lets every notification through
OtherFileNone(e) == FALSE
\* event.Name != filePath
OtherFile(e) == e.name # "live"

\* the Create branch of the loop: close, currentPos = 0, openAndSeek()
OnCreateKeepPos(t) ==
    [file |-> openAndSeek(t.currentPos), currentPos |-> t.currentPos,
     fds |-> t.fds - Fd(t.file) + Fd(openAndSeek(t.currentPos))]
OnCreate(t) ==
    [file |-> openAndSeek(0), currentPos |-> 0, fds |-> t.fds - Fd(t.file) + Fd(openAndSeek(0))]

\* the handle the Write branch reads from: the open one, or openAndSeek()
WriteHandle(t) == IF t.file = Nil THEN openAndSeek(t.currentPos) ELSE t.file

\* file.Seek(0, os.SEEK_CUR) after the scanner has read to the end of the file
PosAfterRead(h) ==
    IF h.pos >= Len(files[h.gen]) THEN h.pos ELSE Len(files[h.gen])

\* the complete lines of the file a create notification opened, as it stood then
Pending(f) ==
    IF f = Nil THEN <<>>
    ELSE SelectSeq(ScanFrom(files[Val(f).gen], 0), LAMBDA k : k.term)

Served(r) == IF r = Nil THEN Nil ELSE Some([Val(r) EXCEPT !.served = TRUE])

\* case event, ok := <-watcher.Events with ok: one notification handled
HandleEvent ==
    /\ pc = "watch"
    /\ chanOpen
    /\ events # <<>>
    /\ events' = Tail(events)
    /\ LET e == Head(events)
           t0 == [file |-> file, currentPos |-> currentPos, fds |-> obs.fds]
       IN IF OtherFile(e)
          THEN /\ UNCHANGED <<file, currentPos, committed_state, block_time_gap,
                              lastCommittedState>>
               /\ obs' = [obs EXCEPT !.last = "ignored"]
          ELSE
            LET created == "Create" \in e.ops
                t1 == IF created THEN OnCreate(t0) ELSE t0
                o1 == IF created
                      THEN [obs EXCEPT
                              !.fds = t1.fds,
                              !.last = "create",
                              !.rot = Some([pending |-> Pending(t1.file),
                                            from |-> currentPos,
                                            served |-> FALSE])]
                      ELSE [obs EXCEPT !.last = "none"]
            IN IF "Write" \notin e.ops
               THEN /\ file' = t1.file
                    /\ currentPos' = t1.currentPos
                    /\ obs' = o1
                    /\ UNCHANGED <<committed_state, block_time_gap, lastCommittedState>>
               ELSE
                 LET h == WriteHandle(t1) IN
                 IF h = Nil
                 THEN /\ file' = Nil
                      /\ currentPos' = t1.currentPos
                      /\ obs' = [o1 EXCEPT !.last = "write", !.read = <<>>, !.rot = Served(@)]
                      /\ UNCHANGED <<committed_state, block_time_gap,
                                     lastCommittedState>>
                 ELSE
                   LET toks == ScanFrom(files[Val(h).gen], Val(h).pos)
                       pos == PosAfterRead(Val(h))
                   IN /\ file' = Some([gen |-> Val(h).gen, pos |-> pos])
                      /\ currentPos' = pos
                      /\ Commit(FeedLines(St, toks, "tail"),
                                [o1 EXCEPT
                                   !.fds = @ + (IF t1.file = Nil THEN 1 ELSE 0),
                                   !.last = "write",
                                   !.read = toks,
                                   !.rot = Served(@),
                                   !.fed = @ \cup FedOf(toks, Val(h).gen, "tail")])
    /\ UNCHANGED <<pc, skipHistorical, idx, segs, files, pathGen, watching, chanOpen,
                   budget>>

\* case with !ok: a closed channel makes watchLogFile return, and main with it
HandleClosed ==
    /\ pc = "watch"
    /\ ~chanOpen
    /\ pc' = "returned"
    /\ UNCHANGED <<skipHistorical, idx, committed_state, block_time_gap,
                   lastCommittedState, segs, files, pathGen, file, currentPos, events,
                   watching, chanOpen, budget, obs>>

-----------------------------------------------------------------------------
(* Environment: the node writing its log, rotation, the watcher's backend *)

\* The environment is followed from the moment main() turns to the live file
\* (the steps before neither read it nor watch it) until the process ends.
LogInUse ==
    /\ pc \in {"liveParse", "stat", "openAndSeek", "watcherAdd", "watch"}
    /\ chanOpen

\* a notification is queued while the directory is watched; inotify merges a
\* notification equal to the last one still unread
Notify(q, e) ==
    IF ~watching \/ ~chanOpen THEN q
    ELSE IF q # <<>> /\ q[Len(q)] = e THEN q
    ELSE Append(q, e)

\* The node commits heights in increasing order.  Its k-th line (k = 0, 1, ...)
\* carries the next height and a timestamp 5.000 s, 4.999 s or 0 s after the
\* line before.
LineTs == <<Txt5, <<1, 0, 0, 0, 0>>, <<1, 4, 9, 9, 9>>, <<1, 4, 9, 9, 9>>,
            <<1, 9, 9, 9, 9>>>>
HeadsIn(content) == Cardinality({i \in 1..Len(content) : IsHead(content[i])})
RECURSIVE HeadsWritten(_, _)
HeadsWritten(fs, g) == IF g = 0 THEN 0 ELSE HeadsIn(fs[g]) + HeadsWritten(fs, g - 1)
NextHead(fs) ==
    LET k == HeadsWritten(fs, Len(fs)) IN
    HeadPiece(MaxSeg + 1 + k, LineTs[(k % Len(LineTs)) + 1], (k % 2) + 1)

\* what one write of the producer appends: a whole line, or the first part of
\* one; a line begun is finished by the next write
Chunks(fs, content) ==
    IF content # <<>> /\ content[Len(content)].k = "head"
    THEN {<<TailPiece, NL>>}
    ELSE {<<NextHead(fs), TailPiece, NL>>, <<NextHead(fs)>>}

\* the node appends to its log
ProducerWrite ==
    /\ LogInUse
    /\ pathGen # 0
    /\ budget.writes > 0
    /\ \E c \in Chunks(files, files[pathGen]) :
         files' = [files EXCEPT ![pathGen] = @ \o c]
    /\ events' = Notify(events, Ev("live", "Write"))
    /\ budget' = [budget EXCEPT !.writes = @ - 1]
    /\ UNCHANGED <<pc, skipHistorical, idx, committed_state, block_time_gap,
                   lastCommittedState, segs, pathGen, file, currentPos, watching,
                   chanOpen, obs>>

\* rotation, first half: the live file is renamed to <live>.1, which the
\* directory watch reports as a rename of the one and the creation of the other
RenameAway ==
    /\ LogInUse
    /\ pathGen # 0
    /\ Len(files) < MaxGen
    /\ pathGen' = 0
    /\ events' = Notify(Notify(events, Ev("live", "Rename")), Ev("other", "Create"))
    /\ UNCHANGED <<pc, skipHistorical, idx, committed_state, block_time_gap,
                   lastCommittedState, segs, files, file, currentPos, watching,
                   chanOpen, budget, obs>>

\* the live file is created (at first, or as the second half of a rotation)
CreateLive ==
    /\ LogInUse
    /\ pathGen = 0
    /\ Len(files) < MaxGen
    /\ files' = Append(files, <<>>)
    /\ pathGen' = Len(files) + 1
    /\ events' = Notify(events, Ev("live", "Create"))
    /\ UNCHANGED <<pc, skipHistorical, idx, committed_state, block_time_gap,
                   lastCommittedState, segs, file, currentPos, watching, chanOpen,
                   budget, obs>>

\* the watcher's backend stops and closes watcher.Events and watcher.Errors;
\* what was queued is never delivered
WatcherStops ==
    /\ LogInUse
    /\ watching
    /\ chanOpen
    /\ chanOpen' = FALSE
    /\ events' = <<>>
    /\ UNCHANGED <<pc, skipHistorical, idx, committed_state, block_time_gap,
                   lastCommittedState, segs, files, pathGen, file, currentPos,
                   watching, budget, obs>>

-----------------------------------------------------------------------------
(* Spec: main() over a fresh store, with the node writing and rotating its log *)

\* the segment with suffix n holds the line of height n
SegTs == <<Txt0, Txt5, <<0, 5, 0, 0, 0>>, <<0, 5, 0, 0, 0>>>>
SegContent(n) == CsLine(n, SegTs[((n - 1) % Len(SegTs)) + 1], 1) \o <<NL>>

Init ==
    /\ pc = "idxCommitted"
    /\ skipHistorical \in BOOLEAN
    /\ idx = [c \in Colls |-> "none"]
    /\ committed_state = <<>>
    /\ block_time_gap = <<>>
    /\ lastCommittedState = Nil
    /\ segs = [n \in 1..MaxSeg |-> DirEntry("live", <<n>>, FALSE, SegContent(n))]
    /\ files = <<>>
    /\ pathGen = 0
    /\ file = Nil
    /\ currentPos = 0
    /\ events = <<>>
    /\ watching = FALSE
    /\ chanOpen = TRUE
    /\ budget = [writes |-> MaxWrites]
    /\ obs = Obs0

Next ==
    \/ EnsureCommitted
    \/ EnsureGap
    \/ ProcessHistoricalLogs
    \/ ProcessLiveFile
    \/ StatLive
    \/ OpenLive
    \/ WatcherAdd
    \/ HandleEvent
    \/ HandleClosed
    \/ ProducerWrite
    \/ RenameAway
    \/ CreateLive
    \/ WatcherStops

Spec == Init /\ [][Next]_vars

-----------------------------------------------------------------------------
(* Properties of index setup and of the store (SpecStartup) *)

Docs(c) == IF c = "committed_state" THEN committed_state ELSE block_time_gap

OnePerHeight(docs) ==
    \A i, j \in 1..Len(docs) : docs[i].Height = docs[j].Height => i = j

IndexesReturned == pc \notin {"idxCommitted", "idxGap", "fatal"}

\* C1: once ensureIndexes has returned, committed_state and block_time_gap each
\* hold at most one document per height, whatever is ingested afterwards.
C1_OnePerHeight ==
    IndexesReturned =>
        OnePerHeight(committed_state) /\ OnePerHeight(block_time_gap)

\* C5: no insert is attempted before both collections enforce uniqueness on
\* height, and a constraint creation that fails for another reason than
\* duplicate documents ends the process before any line is ingested.
C5_StartupGate ==
    /\ obs.n > 0 => \A c \in Colls : EnforcesUnique(idx[c])
    /\ \A c \in Colls :
         obs.setup[c].first \in {"conflict", "other"} => pc = "fatal" /\ obs.n = 0

\* the documents of docs that are the first of their height, in order
FirstOfHeight(docs) ==
    KeepAt(docs, {i \in 1..Len(docs) :
                    \E j \in 1..(i - 1) : docs[j].Height = docs[i].Height}, 1)

\* createUniqueIndex met duplicates on c and ran the repair without a storage fault
RepairRan(c) ==
    /\ obs.setup[c].first = "E11000"
    /\ ~obs.setup[c].faulty

\* C6: when constraint creation fails on duplicate heights and the repair runs
\* (no storage fault), the retried creation succeeds and the collection then
\* holds exactly the first document of every height it held before: no height
\* is lost and documents of unduplicated heights are untouched.
C6_DedupRepair ==
    \A c \in Colls :
        RepairRan(c) =>
            /\ obs.setup[c].via = "repaired"
            /\ obs.setup[c].ret = "nil"
            /\ idx[c] = "unique"
            /\ obs.n = 0 =>
                 /\ Docs(c) = FirstOfHeight(obs.pre[c])
                 /\ OnePerHeight(Docs(c))
                 /\ Heights(Docs(c)) = Heights(obs.pre[c])

\* C6 witness: a repaired committed_state that held three documents, two of them
\* sharing a height
C6_Witness ==
    /\ RepairRan("committed_state")
    /\ obs.setup["committed_state"].via = "repaired"
    /\ Len(obs.pre["committed_state"]) = 3
    /\ Len(committed_state) = 2
    /\ Cardinality(Heights(committed_state)) = 2

IsPrefix(s, t) == Len(s) <= Len(t) /\ SubSeq(t, 1, Len(s)) = s

FirstWith(docs, h) == docs[First(Ids(docs, h))]

IngestStep == obs'.n = obs.n + 1

\* C7: an insert of an already stored height leaves every stored document as it
\* was, the first-written document of that height staying the one found first;
\* where the store enforces uniqueness it is a no-op that is not reported as an
\* error; an insert that meets another storage failure stores nothing, is
\* logged, and the pipeline goes on.
C7_InsertOrIgnore ==
    [][IngestStep /\ obs'.ins.matched =>
         LET r == obs'.ins
             h == r.height
             stored == h \in Heights(committed_state)
         IN /\ stored =>
                 /\ IsPrefix(committed_state, committed_state')
                 /\ FirstWith(committed_state', h) = FirstWith(committed_state, h)
            /\ stored /\ EnforcesUnique(idx["committed_state"]) /\ r.csErr # "other" =>
                 /\ r.csErr = "dup"
                 /\ committed_state' = committed_state
            /\ r.csErr = "dup" => committed_state' = committed_state
            /\ r.gapErr = "dup" => block_time_gap' = block_time_gap
            /\ r.csErr = "other" => committed_state' = committed_state
            /\ r.gapErr = "other" => block_time_gap' = block_time_gap
            /\ r.logged <=> (r.csErr = "other" \/ r.gapErr = "other")
            /\ pc' = pc
            /\ IsPrefix(block_time_gap, block_time_gap')
      ]_vars

\* C7 witness: a duplicate-key insert into committed_state has been ignored
C7_Witness ==
    /\ obs.n > 0
    /\ obs.ins.matched
    /\ obs.ins.csErr = "dup"
    /\ obs.ins.height \in Heights(committed_state)

-----------------------------------------------------------------------------
(* Properties of the pipeline (Spec) *)

\* C3: for events processed one after the other, a gap record (height of the
\* later, previousHeight of the earlier) is produced if and only if the later
\* timestamp is at least 5.0 s after the earlier one, whichever file or phase
\* (historical segment, startup parse of the live file, tailer) each came from.
C3_GapIff ==
    \A p \in obs.pairs :
        /\ p.gap # Nil <=> p.e2.Timestamp - p.e1.Timestamp >= 5000
        /\ p.gap # Nil =>
             /\ Val(p.gap).Height = p.e2.Height
             /\ Val(p.gap).PreviousHeight = p.e1.Height

\* C3 witness: a gap across two historical segments, a gap from the startup
\* parse of the live file to the first line the tailer read, and a pair without
\* a gap
C3_Witness ==
    /\ \E p \in obs.pairs : p.s1 = "seg1" /\ p.s2 = "seg2" /\ p.gap # Nil
    /\ \E p \in obs.pairs : p.s1 = "live" /\ p.s2 = "tail" /\ p.gap # Nil
    /\ \E p \in obs.pairs : p.gap = Nil

\* the tailer takes one notification off the channel
Handled ==
    /\ pc = "watch"
    /\ chanOpen /\ chanOpen'
    /\ events # <<>>
    /\ events' = Tail(events)

HandledOp(op) ==
    Handled /\ Head(events).name = "live" /\ op \in Head(events).ops

\* C4: handling a create notification for the watched path closes the old
\* handle, sets the offset to 0 and opens the file the path names from its
\* start; the complete lines that file held then are delivered, in order and
\* first, by the next write notification handled.
C4_Rotation ==
    [][/\ HandledOp("Create") =>
            /\ currentPos' = 0
            /\ file' = IF pathGen = 0 THEN Nil ELSE Some([gen |-> pathGen, pos |-> 0])
            /\ obs'.fds = Fd(file')
       /\ HandledOp("Write") /\ obs.rot # Nil /\ ~Val(obs.rot).served =>
            IsPrefix(Val(obs.rot).pending, obs'.read)
      ]_vars

\* C4 witness: the tailer stood at an offset X > 0, a create notification opened
\* a file that already held a line, and the next write notification was handled
C4_Witness ==
    /\ obs.rot # Nil
    /\ Val(obs.rot).served
    /\ Val(obs.rot).from > 0
    /\ Val(obs.rot).pending # <<>>
    /\ obs.last = "write"

\* C8: with historical processing enabled, every complete Committed State line
\* that lies below the tailer's initial offset was processed by the startup
\* parse of the live file and is stored exactly once.
C8_HandOff ==
    ~skipHistorical /\ obs.stat # Nil /\ Val(obs.stat).gen # 0 =>
        LET g == Val(obs.stat).gen
            toks == ScanFrom(files[g], 0)
        IN \A i \in 1..Len(toks) :
             LET k == toks[i] IN
             k.term /\ k.off + Len(k.text) < Val(obs.stat).size /\ MatchAt(k.text) # 0 =>
                 /\ \E r \in obs.fed :
                      r.src = "live" /\ r.gen = g /\ r.off = k.off /\ r.text = k.text
                 /\ Cardinality(Ids(committed_state, Entry(k.text).Height)) = 1

\* the handle stands at the start of a line
AtLineStart(h) ==
    \/ h.pos = 0
    \/ h.pos > Len(files[h.gen])
    \/ files[h.gen][h.pos].k = "nl"

\* C9: the tailer never hands an unterminated trailing line to the parser and
\* never moves its offset past the first byte of one.
C9_PartialHeld ==
    /\ \A r \in obs.fed : r.src = "tail" => r.term
    /\ obs.last = "write" /\ file # Nil => AtLineStart(Val(file))

\* C10: the process never leaves watchLogFile by a normal return, and a failure
\* to set up the watch ends it fatally.
C10_FatalOnClosure ==
    /\ pc # "returned"
    /\ obs.addErr => pc = "fatal"

-----------------------------------------------------------------------------
(* SpecReplay: one log file fed twice through processSingleFile, from a     *)
(* fresh store, the gap detector's state carried from the first pass to the *)
(* second.                                                                  *)

ReplayLines ==
    {CsLine(h, t, 1) : h \in {1, 2}, t \in {Txt0, Txt5, Txt11}} \cup {JunkLine}

RECURSIVE Joined(_)
Joined(lines) ==
    IF lines = <<>> THEN <<>> ELSE Head(lines) \o <<NL>> \o Joined(Tail(lines))

InitReplay ==
    /\ pc = "idxCommitted"
    /\ skipHistorical = FALSE
    /\ idx = [c \in Colls |-> "none"]
    /\ committed_state = <<>>
    /\ block_time_gap = <<>>
    /\ lastCommittedState = Nil
    /\ segs \in {<<DirEntry("live", <<1>>, FALSE, Joined(ls))>> :
                   ls \in SeqsUpTo(ReplayLines, MaxLines)}
    /\ files = <<>>
    /\ pathGen = 0
    /\ file = Nil
    /\ currentPos = 0
    /\ events = <<>>
    /\ watching = FALSE
    /\ chanOpen = TRUE
    /\ budget = [passes |-> 2]
    /\ obs = Obs0

\* processSingleFile on the file, once more
ReplayPass ==
    /\ pc = "historical"
    /\ budget.passes > 0
    /\ LET st == processSingleFile(St, Some(segs[1].data), "seg1") IN
       Commit(st, [obs EXCEPT !.n = @ + 1,
                              !.snap = IF obs.n = 0 THEN [cs |-> st.cs, gap |-> st.gap]
                                       ELSE @])
    /\ budget' = [budget EXCEPT !.passes = @ - 1]
    /\ UNCHANGED <<pc, skipHistorical, idx, segs, files, pathGen, file, currentPos,
                   events, watching, chanOpen>>

NextReplay == EnsureCommitted \/ EnsureGap \/ ReplayPass

SpecReplay == InitReplay /\ [][NextReplay]_vars

\* the events of a file, in file order
RECURSIVE EntriesOf(_)
EntriesOf(toks) ==
    IF toks = <<>> THEN <<>>
    ELSE (IF MatchAt(Head(toks).text) = 0 THEN <<>> ELSE <<Entry(Head(toks).text)>>)
         \o EntriesOf(Tail(toks))
FileEvents == EntriesOf(ScanFrom(segs[1].data, 0))

\* positions i whose event comes at least 5.0 s after the event before it
Qualifying(evs) ==
    {i \in 2..Len(evs) : evs[i].Timestamp - evs[i - 1].Timestamp >= 5000}

\* C2: after the second pass the store is as after the first, with
\* one CommittedEvent per distinct height and one GapEvent per qualifying
\* transition of the file.
C2_Idempotent ==
    obs.n = 2 =>
        /\ committed_state = obs.snap.cs
        /\ block_time_gap = obs.snap.gap
        /\ OnePerHeight(committed_state)
        /\ Heights(committed_state) = {FileEvents[i].Height : i \in 1..Len(FileEvents)}
        /\ Len(block_time_gap) = Cardinality(Qualifying(FileEvents))

\* What the two passes do leave behind: committed_state is after the second pass
\* as after the first, with one CommittedEvent per distinct height;
\* block_time_gap holds one record per distinct height that ends a qualifying
\* transition, and the second pass adds nothing to it, except one record for the
\* height of the file's first event (previousHeight: the last event's) when the
\* first event is at least 5.0 s later than the last and that height has no gap
\* record yet.
ReplayLeaves ==
    LET evs == FileEvents
        wrap == Len(evs) > 0 /\ evs[1].Timestamp - evs[Len(evs)].Timestamp >= 5000
        fresh == wrap /\ evs[1].Height \notin Heights(obs.snap.gap)
    IN /\ obs.n >= 1 =>
            /\ OnePerHeight(obs.snap.cs)
            /\ Heights(obs.snap.cs) = {evs[i].Height : i \in 1..Len(evs)}
            /\ OnePerHeight(obs.snap.gap)
            /\ Heights(obs.snap.gap) = {evs[i].Height : i \in Qualifying(evs)}
       /\ obs.n = 2 =>
            /\ committed_state = obs.snap.cs
            /\ ~fresh => block_time_gap = obs.snap.gap
            /\ fresh =>
                 block_time_gap =
                     Append(obs.snap.gap,
                            [Timestamp |-> evs[1].Timestamp, Height |-> evs[1].Height,
                             Txs |-> evs[1].Txs,
                             TimeDiff |-> evs[1].Timestamp - evs[Len(evs)].Timestamp,
                             PreviousHeight |-> evs[Len(evs)].Height])

\* both passes done over a file with two heights, a gap record from the first
\* pass, and nothing added by the second
ReplayQuiet ==
    /\ obs.n = 2
    /\ Len(committed_state) = 2
    /\ Len(obs.snap.gap) >= 1
    /\ block_time_gap = obs.snap.gap
    /\ Len(FileEvents) = 3

-----------------------------------------------------------------------------
(* SpecHistorical: startup over a log directory that holds, beside rotated   *)
(* segments, names close to theirs.                                          *)

\* What the directory may hold, in the order of the file names (os.ReadDir
\* sorts by name).  The file of the i-th entry holds the line of height i.
\*   1  a name like <live>.1 with another character where mainLogName has '.'
\*   2  <live>.01      3  <live>.1      4  <live>.10     5  <live>.2
\*   6  <live>.3, a directory     7  <live>.bak     8  another file ending in .1
DirPool ==
    <<[base |-> "alike", sfx |-> <<1>>, isDir |-> FALSE],
      [base |-> "live", sfx |-> <<0, 1>>, isDir |-> FALSE],
      [base |-> "live", sfx |-> <<1>>, isDir |-> FALSE],
      [base |-> "live", sfx |-> <<1, 0>>, isDir |-> FALSE],
      [base |-> "live", sfx |-> <<2>>, isDir |-> FALSE],
      [base |-> "live", sfx |-> <<3>>, isDir |-> TRUE],
      [base |-> "live", sfx |-> <<NonDigit>>, isDir |-> FALSE],
      [base |-> "other", sfx |-> <<1>>, isDir |-> FALSE]>>

PoolEntry(i) ==
    DirEntry(DirPool[i].base, DirPool[i].sfx, DirPool[i].isDir,
             CsLine(i, Txt5, 1) \o <<NL>>)

\* the listing that holds the pool entries picked by keep
RECURSIVE Listing(_, _)
Listing(keep, i) ==
    IF i > Len(DirPool) THEN <<>>
    ELSE (IF i \in keep THEN <<PoolEntry(i)>> ELSE <<>>) \o Listing(keep, i + 1)

InitHistorical ==
    /\ pc = "idxCommitted"
    /\ skipHistorical = FALSE
    /\ idx = [c \in Colls |-> "none"]
    /\ committed_state = <<>>
    /\ block_time_gap = <<>>
    /\ lastCommittedState = Nil
    /\ segs \in {Listing(keep, 1) : keep \in SUBSET (1..Len(DirPool))}
    /\ files = <<CsLine(9, Txt11, 1) \o <<NL>>>>
    /\ pathGen = 1
    /\ file = Nil
    /\ currentPos = 0
    /\ events = <<>>
    /\ watching = FALSE
    /\ chanOpen = TRUE
    /\ budget = [writes |-> 0]
    /\ obs = Obs0

NextHistorical ==
    EnsureCommitted \/ EnsureGap \/ ProcessHistoricalLogs \/ ProcessLiveFile

SpecHistorical == InitHistorical /\ [][NextHistorical]_vars

\* a file named <liveName>.<N>, N an integer
IsSegment(e) == e.name.base = "live" /\ AllDigits(e.name.sfx) /\ ~e.isDir

\* rank of the activity that fed a line to the parser
SrcRank(src) ==
    CASE src = "seg1" -> 1 [] src = "seg2" -> 2 [] src = "segN" -> 3
      [] src = "live" -> 4 [] OTHER -> 5

\* the historical scan went through the files it picked one after the other in
\* the order of the numbers, never going back, and came before the live file
\* and the tailer
ScanInOrder ==
    /\ obs.hist # Nil =>
         LET h == Val(obs.hist) IN
         /\ \A i, j \in 1..Len(h.logs) : i < j => SuffixNum(h.logs[i]) <= SuffixNum(h.logs[j])
         /\ ~h.fedLive /\ ~h.handled
    /\ \A p \in obs.pairs : SrcRank(p.s1) <= SrcRank(p.s2)
    /\ (obs.fed # {} \/ obs.last # "none") => (skipHistorical \/ obs.hist # Nil)

\* C11: the historical scan processes exactly the files named <liveName>.<N>,
\* in strictly ascending order of N, each completely before the next, all of
\* them before the live file is parsed and before the tailer handles a
\* notification.
C11_HistoricalOrder ==
    /\ ScanInOrder
    /\ obs.hist # Nil /\ ~Val(obs.hist).dirErr =>
         LET h == Val(obs.hist) IN
         /\ Range(h.logs) = {e \in Range(segs) : IsSegment(e)}
         /\ \A i, j \in 1..Len(h.logs) : i < j => SuffixNum(h.logs[i]) < SuffixNum(h.logs[j])

\* what the calls that follow can tell of the store state st
Visible(st) == [cs |-> st.cs, gap |-> st.gap, last |-> st.last]

\* the files of logs os.Open succeeds on, in the order of logs
Opened(logs, unreadable) ==
    LET F[n \in 0..Len(logs)] ==
          IF n = 0 THEN <<>>
          ELSE IF n \in unreadable THEN F[n - 1] ELSE Append(F[n - 1], logs[n])
    IN F[Len(logs)]

\* every line of the files fs handed to the parser, file after file
RECURSIVE FeedFiles(_, _)
FeedFiles(st, fs) ==
    IF fs = <<>> THEN st
    ELSE FeedFiles(FeedLines(st, ScanFrom(Head(fs).data, 0), "any"), Tail(fs))

\* C18: a segment that fails to open is skipped, leaving the store and the
\* detector as they would be without it, and the segments after it are still
\* processed in order; when the directory cannot be read no segment is
\* processed; in both cases main goes on to parse the live file and then enters
\* the tailer.
C18_ScanFailuresNonFatal ==
    [][/\ pc = "historical" /\ pc' # pc =>
            LET h == Val(obs'.hist) IN
            /\ pc' = "liveParse"
            /\ h.dirErr => Visible(St') = Visible(St)
            /\ ~h.dirErr =>
                 Visible(St') = Visible(FeedFiles(St, Opened(h.logs, h.unreadable)))
       /\ pc = "liveParse" /\ pc' # pc => pc' = "stat"
      ]_vars

\* the first of two segments failed to open, the second was stored, and the
\* tailer is watching
C18_Witness ==
    /\ obs.hist # Nil
    /\ ~Val(obs.hist).dirErr
    /\ Len(Val(obs.hist).logs) = 2
    /\ Val(obs.hist).unreadable = {1}
    /\ 2 \in Heights(committed_state)
    /\ 1 \notin Heights(committed_state)
    /\ pc = "watch"

\* the directory could not be read, and the tailer is watching
ScanAbortedThenTailing ==
    /\ obs.hist # Nil
    /\ Val(obs.hist).dirErr
    /\ committed_state = <<>>
    /\ pc = "watch"

-----------------------------------------------------------------------------
(* SpecIngest: lines of every shape reach parseAndStore, one call at a time, *)
(* over a store that index setup found empty.                                *)

HeadText(ts, height, txs) == [k |-> "head", ts |-> ts, height |-> height, txs |-> txs]

\* timestamp text that time.Parse rejects
BadTsLine == <<HeadText(<<NonDigit>>, <<4>>, <<1>>), TailPiece>>
\* height and txs texts that are no numbers
BadNumLine == <<HeadText(Txt11, <<NonDigit>>, <<NonDigit>>), TailPiece>>
\* height text of more digits than an int64 holds
BigNumLine == <<HeadText(Txt5, <<9, 9, 9, 9>>, <<1>>), TailPiece>>

ParseLines ==
    {CsLine(1, Txt0, 1), CsLine(2, Txt5, 2), CsLine(1, Txt11, 1), CsLine(3, Txt4999, 1),
     BadTsLine, BadNumLine, BigNumLine, JunkLine}

InitIngest ==
    /\ pc = "idxCommitted"
    /\ skipHistorical = FALSE
    /\ idx = [c \in Colls |-> "none"]
    /\ committed_state = <<>>
    /\ block_time_gap = <<>>
    /\ lastCommittedState = Nil
    /\ segs = <<>>
    /\ files = <<>>
    /\ pathGen = 0
    /\ file = Nil
    /\ currentPos = 0
    /\ events = <<>>
    /\ watching = FALSE
    /\ chanOpen = TRUE
    /\ budget = [feed |-> MaxFeed]
    /\ obs = Obs0

\* one line reaches parseAndStore
FeedLine ==
    /\ pc = "historical"
    /\ budget.feed > 0
    /\ \E line \in ParseLines, flt \in Faults :
         Commit(parseAndStore(St, line, "any", flt), [obs EXCEPT !.n = @ + 1])
    /\ budget' = [budget EXCEPT !.feed = @ - 1]
    /\ UNCHANGED <<pc, skipHistorical, idx, segs, files, pathGen, file, currentPos,
                   events, watching, chanOpen>>

NextIngest == EnsureCommitted \/ EnsureGap \/ FeedLine

SpecIngest == InitIngest /\ [][NextIngest]_vars

\* C12: an event whose committed_state insert failed with another error than a
\* duplicate key is dropped: it does not become the detector's prior event and
\* no gap record is written for it.
C12_LastStored ==
    [][IngestStep /\ obs'.ins.csErr = "other" =>
         /\ committed_state' = committed_state
         /\ lastCommittedState' = lastCommittedState
         /\ block_time_gap' = block_time_gap
      ]_vars

\* the gap record the detector is to write for event e after prev, the time
\* difference being d
GapRecord(e, prev, d) ==
    [Timestamp |-> e.Timestamp, Height |-> e.Height, Txs |-> e.Txs,
     TimeDiff |-> d, PreviousHeight |-> prev.Height]

Delta(e, prev) == e.Timestamp - prev.Timestamp

\* the difference as a time.Duration holds it
DeltaCapped(e, prev) ==
    IF Delta(e, prev) > MaxDuration THEN MaxDuration
    ELSE IF Delta(e, prev) < -MaxDuration THEN -MaxDuration ELSE Delta(e, prev)

\* one step of the detector; capped tells which difference timeDiff is to be
DetectorStep(capped) ==
    /\ lastCommittedState # Nil => lastCommittedState' # Nil
    /\ obs'.ins.matched =>
         LET e == Val(lastCommittedState') IN
         /\ lastCommittedState' # Nil
         /\ e.Height = obs'.ins.height
         /\ lastCommittedState = Nil => block_time_gap' = block_time_gap
         /\ block_time_gap' # block_time_gap =>
              LET prev == Val(lastCommittedState) IN
              /\ Delta(e, prev) >= 5000
              /\ block_time_gap' =
                   Append(block_time_gap,
                          GapRecord(e, prev, IF capped THEN DeltaCapped(e, prev)
                                             ELSE Delta(e, prev)))

\* C13: the first event writes no gap record; after an event prev, a gap record
\* is written for e only when delta = e.timestamp - prev.timestamp >= 5.0 s and
\* it carries timestamp, height and txs of e, timeDiff = delta and
\* previousHeight = prev.height; after every event e the detector holds e and
\* never goes back to holding none.
C13_GapStateMachine == [][IngestStep => DetectorStep(FALSE)]_vars

\* the same with timeDiff the difference as a time.Duration holds it
GapStateMachineCapped == [][IngestStep => DetectorStep(TRUE)]_vars

\* C16: a line the Committed State pattern does not match stores no document in
\* committed_state or block_time_gap, leaves lastCommittedState as it was and
\* logs no error; every line that follows is processed as it would have been
\* had the line not been there.
C16_NonMatchingFrame ==
    [][IngestStep /\ ~obs'.ins.matched =>
         /\ committed_state' = committed_state
         /\ block_time_gap' = block_time_gap
         /\ lastCommittedState' = lastCommittedState
         /\ ~obs'.ins.logged
         /\ \A l \in ParseLines, flt \in Faults :
              Visible(parseAndStore(St', l, "any", flt)) =
                Visible(parseAndStore(St, l, "any", flt))
      ]_vars

\* an unrelated line was fed after an event, over a store that holds documents
C16_Witness ==
    /\ obs.n >= 2
    /\ obs.ins.line = JunkLine
    /\ ~obs.ins.matched
    /\ lastCommittedState # Nil
    /\ committed_state # <<>>

\* a number text that strconv reads without an error
NumberParses(s) == AllDigits(s) /\ DigitsValue(s, 0) <= MaxInt64
\* a timestamp text that time.Parse reads without an error
TimeParses(s) == AllDigits(s) /\ Len(s) = TsWidth /\ DigitsValue(SubSeq(s, 1, 2), 0) <= 59

\* the event of a matching line, a field that does not parse taking its zero value
ZeroedEvent(line) ==
    LET h == line[MatchAt(line)] IN
    [Timestamp |-> IF TimeParses(h.ts) THEN DigitsValue(h.ts, 0) ELSE ZeroTime,
     Height    |-> IF NumberParses(h.height) THEN DigitsValue(h.height, 0) ELSE 0,
     Txs       |-> IF NumberParses(h.txs) THEN DigitsValue(h.txs, 0) ELSE 0,
     AppHash   |-> Len(line) - MatchAt(line) + 1]

\* what a call does with the event e of a matching line: InsertOne into
\* committed_state, the gap check against the prior event, e the prior event
HandledAs(e) ==
    /\ obs'.ins.csErr = "ok" => committed_state' = Append(committed_state, e)
    /\ obs'.ins.csErr # "ok" => committed_state' = committed_state
    /\ obs'.ins.gapErr = "ok" =>
         /\ lastCommittedState # Nil
         /\ block_time_gap' = Append(block_time_gap, GapEntry(e, lastCommittedState))
    /\ obs'.ins.gapErr # "ok" => block_time_gap' = block_time_gap
    /\ obs'.ins.gapErr # "none" <=> GapDue(e, lastCommittedState)
    /\ lastCommittedState' = Some(e)

\* C17: a line the pattern matches yields an event whose timestamp, height and
\* txs are the parsed values, the zero value standing for each text that does
\* not parse; the event is inserted, takes part in the gap check and becomes
\* the prior event whether its texts parse or not.
C17_ZeroOnParseFailure ==
    [][IngestStep /\ obs'.ins.matched => HandledAs(ZeroedEvent(obs'.ins.line))]_vars

\* the same with the event parseAndStore builds
HandledAsBuilt ==
    [][IngestStep /\ obs'.ins.matched => HandledAs(Entry(obs'.ins.line))]_vars

\* the gap record g has its event among the documents docs
EventStored(g, docs) ==
    \E j \in 1..Len(docs) :
       /\ docs[j].Height = g.Height
       /\ docs[j].Timestamp = g.Timestamp
       /\ docs[j].Txs = g.Txs

\* C20: every stored gap record has timeDiff >= 5.0 s, and committed_state holds
\* a document of the record's height with the record's timestamp and txs.
C20_GapHasCommitted ==
    \A i \in 1..Len(block_time_gap) :
       /\ block_time_gap[i].TimeDiff >= GapThreshold
       /\ EventStored(block_time_gap[i], committed_state)

\* the first half alone
GapsReachThreshold ==
    \A i \in 1..Len(block_time_gap) : block_time_gap[i].TimeDiff >= GapThreshold

\* a gap record differs from the stored document of its height although no
\* insert has failed on a storage fault
GapOfRepeatedHeight ==
    \E i \in 1..Len(block_time_gap) :
       /\ ~EventStored(block_time_gap[i], committed_state)
       /\ block_time_gap[i].Height \in Heights(committed_state)

-----------------------------------------------------------------------------
(* SpecTrunc: the pipeline of Spec with a live file that is truncated in     *)
(* place (a rotation by copy and truncate).                                  *)

\* the file the tailer reads is cut to length 0 under it, which the directory
\* watch reports as a write; what the tailer was fed from it so far is told
\* apart from what it is fed afterwards
TruncateLive ==
    /\ LogInUse
    /\ pc = "watch"
    /\ obs.trunc = Nil
    /\ pathGen # 0
    /\ file # Nil /\ Val(file).gen = pathGen
    /\ currentPos > 0
    /\ files[pathGen] # <<>>
    /\ files' = [files EXCEPT ![pathGen] = <<>>]
    /\ events' = Notify(events, Ev("live", "Write"))
    /\ obs' = [obs EXCEPT !.trunc = Some([gen |-> pathGen]),
                          !.fed = {r \in @ : r.gen # pathGen}]
    /\ UNCHANGED <<pc, skipHistorical, idx, committed_state, block_time_gap,
                   lastCommittedState, segs, pathGen, file, currentPos, watching,
                   chanOpen, budget>>

NextTrunc == Next \/ TruncateLive

SpecTrunc == Init /\ [][NextTrunc]_vars

\* C14: after the live file was truncated in place, once the tailer has handled
\* every notification, each complete line appended since the truncation has
\* been delivered to the parser.
C14_TruncationDetected ==
    /\ obs.trunc # Nil
    /\ pc = "watch" /\ chanOpen /\ events = <<>>
    /\ pathGen = Val(obs.trunc).gen
    => LET g == pathGen
           toks == ScanFrom(files[g], 0)
       IN \A i \in 1..Len(toks) :
            toks[i].term =>
               \E r \in obs.fed :
                  r.src = "tail" /\ r.gen = g /\ r.off = toks[i].off
                  /\ r.text = toks[i].text

-----------------------------------------------------------------------------
(* SpecRestart: the process is run, stopped and started again over the same *)
(* files and the same store.                                                *)

RestartLines ==
    {CsLine(1, Txt11, 1), CsLine(2, Txt5, 1), CsLine(2, Txt4999, 1), CsLine(3, Txt11, 1),
     JunkLine}

InitRestart ==
    /\ pc = "idxCommitted"
    /\ skipHistorical = FALSE
    /\ idx = [c \in Colls |-> "none"]
    /\ committed_state = <<>>
    /\ block_time_gap = <<>>
    /\ lastCommittedState = Nil
    /\ \E l2 \in RestartLines :
         segs = <<DirEntry("live", <<1>>, FALSE, CsLine(1, Txt0, 1) \o <<NL>>),
                  DirEntry("live", <<2>>, FALSE, l2 \o <<NL>>)>>
    /\ \E l3 \in RestartLines : files = <<l3 \o <<NL>>>>
    /\ pathGen = 1
    /\ file = Nil
    /\ currentPos = 0
    /\ events = <<>>
    /\ watching = FALSE
    /\ chanOpen = TRUE
    /\ budget = [runs |-> MaxRuns]
    /\ obs = Obs0

\* the contents a run has read, in order: the segments that opened, then the
\* live file
ReadOf(h) ==
    (IF h.dirErr THEN <<>>
     ELSE LET keep == SelectSeq([i \in 1..Len(h.logs) |-> [i |-> i, e |-> h.logs[i]]],
                                LAMBDA x : x.i \notin h.unreadable)
          IN [i \in 1..Len(keep) |-> keep[i].e.data])
    \o <<files[pathGen]>>

\* what a run that has come to the tailer leaves behind
RunSummary ==
    [read |-> ReadOf(Val(obs.hist)), cs |-> committed_state, gap |-> block_time_gap,
     last |-> lastCommittedState]

\* the process is stopped before it tails and started again: main() from its
\* first line, lastCommittedState nil, the store and the files as they are
Restart ==
    /\ pc = "stat"
    /\ budget.runs > 1
    /\ pc' = "idxCommitted"
    /\ lastCommittedState' = Nil
    /\ budget' = [budget EXCEPT !.runs = @ - 1]
    /\ obs' = [obs EXCEPT !.runs = Append(@, RunSummary), !.hist = Nil, !.pairs = {},
                          !.gprev = Nil, !.fed = {}, !.ins = NoCall]
    /\ UNCHANGED <<skipHistorical, idx, committed_state, block_time_gap, segs, files,
                   pathGen, file, currentPos, events, watching, chanOpen>>

NextRestart ==
    \/ EnsureCommitted
    \/ EnsureGap
    \/ ProcessHistoricalLogs
    \/ ProcessLiveFile
    \/ Restart

SpecRestart == InitRestart /\ [][NextRestart]_vars

\* the runs so far, the one that has just come to the tailer included
Runs == obs.runs \o (IF pc = "stat" /\ obs.hist # Nil THEN <<RunSummary>> ELSE <<>>)

\* the heights of the events in the files
RECURSIVE HeightsIn(_)
HeightsIn(contents) ==
    IF contents = <<>> THEN {}
    ELSE LET evs == EntriesOf(ScanFrom(Head(contents), 0)) IN
         {evs[i].Height : i \in 1..Len(evs)} \cup HeightsIn(Tail(contents))
AllHeights == HeightsIn(<<segs[1].data, segs[2].data, files[1]>>)

\* before run k the content of the files was fully ingested: an earlier run
\* has read every file and every event of the files is stored
FullyIngested(R, k) ==
    /\ \E i \in 1..(k - 1) : R[i].read = <<segs[1].data, segs[2].data, files[1]>>
    /\ AllHeights \subseteq Heights(R[k - 1].cs)

\* a replay over fully ingested files adds no committed_state document and
\* changes none
ReplayKeepsCommitted(R) ==
    \A k \in 2..Len(R) : FullyIngested(R, k) => R[k].cs = R[k - 1].cs

SameOutcome(a, b) == a.last = b.last /\ a.cs = b.cs /\ a.gap = b.gap

-----------------------------------------------------------------------------
(* SpecNoise: the tailer over a live file that is there when the process     *)
(* starts, in a directory where other files are created, written, renamed    *)
(* and removed.                                                              *)

OtherOps == {"Create", "Write", "Rename", "Remove"}

InitNoise ==
    /\ pc = "idxCommitted"
    /\ skipHistorical = TRUE
    /\ idx = [c \in Colls |-> "none"]
    /\ committed_state = <<>>
    /\ block_time_gap = <<>>
    /\ lastCommittedState = Nil
    /\ segs = <<>>
    /\ files = <<CsLine(1, Txt0, 1) \o <<NL>>>>
    /\ pathGen = 1
    /\ file = Nil
    /\ currentPos = 0
    /\ events = <<>>
    /\ watching = FALSE
    /\ chanOpen = TRUE
    /\ budget = [writes |-> MaxWrites, noise |-> MaxNoise]
    /\ obs = Obs0

\* something happens to another file of the watched directory
OtherFileEvent ==
    /\ LogInUse
    /\ watching
    /\ budget.noise > 0
    /\ \E op \in OtherOps : events' = Append(events, Ev("other", op))
    /\ budget' = [budget EXCEPT !.noise = @ - 1]
    /\ UNCHANGED <<pc, skipHistorical, idx, committed_state, block_time_gap,
                   lastCommittedState, segs, files, pathGen, file, currentPos, watching,
                   chanOpen, obs>>

NextNoise ==
    \/ EnsureCommitted
    \/ EnsureGap
    \/ StatLive
    \/ OpenLive
    \/ WatcherAdd
    \/ HandleEvent
    \/ ProducerWrite
    \/ RenameAway
    \/ OtherFileEvent

SpecNoise == InitNoise /\ [][NextNoise]_vars

\* the loop of watchLogFile takes the notification at the head of the queue
TakesEvent ==
    /\ pc = "watch"
    /\ chanOpen /\ chanOpen'
    /\ events # <<>>
    /\ events' = Tail(events)

\* C19: a notification of any kind whose name is not the live path leaves the
\* tailer's handle and offset, committed_state, block_time_gap and
\* lastCommittedState as they were.
C19_OtherFilesIgnored ==
    [][TakesEvent /\ Head(events).name # "live" =>
         /\ file' = file
         /\ currentPos' = currentPos
         /\ committed_state' = committed_state
         /\ block_time_gap' = block_time_gap
         /\ lastCommittedState' = lastCommittedState
         /\ obs'.fds = obs.fds
      ]_vars

\* a write notification about another file was taken while the tailer held
\* a handle into a live file with lines it has not read yet
C19_Witness ==
    /\ obs.last = "ignored"
    /\ budget.noise < MaxNoise
    /\ file # Nil
    /\ pathGen # 0
    /\ currentPos < Len(files[pathGen])
    /\ committed_state # <<>>

-----------------------------------------------------------------------------
(* The tailer's cursor (Spec, SpecTrunc) *)

\* the offset does not go down in a step that handles no create notification
\* for the watched path
OffsetMonotone == [][~HandledOp("Create") => currentPos' >= currentPos]_vars

\* after a write notification handled with a handle open, the offset is the
\* length of the file the handle is on
OffsetAtEof ==
    [][HandledOp("Write") /\ file' # Nil =>
         currentPos' = Len(files[Val(file').gen])]_vars

\* the offset just past the delivered line r
EndOf(r) == r.off + Len(r.text)

\* the lines a handled write notification delivers lie in file order, behind
\* everything of that file delivered before
InOrderOnce ==
    [][HandledOp("Write") /\ file' # Nil =>
         LET toks == obs'.read
             g == Val(file').gen
         IN /\ \A i, j \in 1..Len(toks) : i < j => toks[i].off + Len(toks[i].text) <= toks[j].off
            /\ \A i \in 1..Len(toks) :
                 \A r \in obs.fed : r.gen = g => EndOf(r) <= toks[i].off
      ]_vars

\* C21: between two create notifications for the watched path the offset never
\* decreases; after each handled write notification it is the end-of-file
\* position of the open file; the lines of one file are delivered in file
\* order and no byte range is delivered twice.
C21_CursorDiscipline ==
    [][/\ ~HandledOp("Create") => currentPos' >= currentPos
       /\ HandledOp("Write") /\ file' # Nil =>
            LET toks == obs'.read
                g == Val(file').gen
            IN /\ currentPos' = Len(files[g])
               /\ \A i, j \in 1..Len(toks) :
                    i < j => toks[i].off + Len(toks[i].text) <= toks[j].off
               /\ \A i \in 1..Len(toks) :
                    \A r \in obs.fed : r.gen = g => EndOf(r) <= toks[i].off
      ]_vars

====
